---- MODULE Spec2Model ----
(***************************************************************************)
(* Model of streamlit_app.py: the credential store, the bulletin analyzer, *)
(* the template filler and the session controller.                         *)
(*                                                                         *)
(* Text is a sequence of one-character strings.  The Hangul syllables of   *)
(* the placeholder tokens are written in romanised form, one sequence      *)
(* element per code point: "seol","gyo","je","mok" is the text of the      *)
(* four syllables of the sermon-title token, and so on.  A character that  *)
(* is neither printable ASCII nor one of these syllables is named by its   *)
(* code point, "U+00E9"; the backquote is "tick".                          *)
(***************************************************************************)
EXTENDS FiniteSets, Integers, Sequences, TLC

VARIABLES
    config_file,      \* contents of CONFIG_FILE on disk, or NoFile
    saved_template,   \* contents of SAVED_TEMPLATE_PATH on disk, or NoTemplate
    api_key_input,    \* the text of the sidebar's key input
    session_state,    \* st.session_state: a mapping from key to value
    tmp_files,        \* number of files left in the temporary directory
    shown,            \* the message the last handler put on the page
    analysis,         \* "running" while a call of analyze_jubo_deep waits on the network
    key_default,      \* the value= the key input on the page was made with (its identity)
    new_template,     \* the file held by the uploader that changes the template, or NoUpload
    page_uploader,    \* the template uploader on the page: "none", "first" or "change"
    template,         \* fill_ppt_text: contents of template_path_or_file
    data,             \* fill_ppt_text: the record argument
    output,           \* fill_ppt_text: the returned document, or Absent
    run_text,         \* inner loop of fill_ppt_text: run.text
    pending           \* inner loop of fill_ppt_text: entries not yet applied

vars == <<config_file, saved_template, api_key_input, session_state, tmp_files, shown,
          analysis, key_default, new_template, page_uploader,
          template, data, output, run_text, pending>>

diskVars == <<config_file, saved_template, tmp_files>>
widgetVars == <<key_default, new_template, page_uploader>>
fillVars == <<template, data, output>>
loopVars == <<run_text, pending>>

----------------------------------------------------------------------------
(* Bounds *)

MaxHymns == 2        \* longest hymn_list drawn as an input
MaxTmp == 2          \* most leftover temporary files tracked
MaxKeyLen == 2       \* longest credential drawn as an input

----------------------------------------------------------------------------
(* Python values *)

\* files hold text (config_file) or a document, a sequence of run texts
NoFile == <<"<no file>">>
NoTemplate == <<<<"<no file>">>>>
\* no document
Absent == <<<<"<absent>">>>>
\* None where a text is expected, and None where a path is expected
None == <<"<None>">>
NonePath == <<<<"<None>">>>>
\* None where st.file_uploader gives no file
NoUpload == <<<<"<no upload>">>>>

Range(s) == {s[i] : i \in 1..Len(s)}

\* k in s
Contains(s, k) ==
    \E i \in 1..(Len(s) - Len(k) + 1) : SubSeq(s, i, i + Len(k) - 1) = k

\* number of (possibly overlapping) places where k occurs in s
Occurrences(s, k) ==
    Cardinality({i \in 1..(Len(s) - Len(k) + 1) : SubSeq(s, i, i + Len(k) - 1) = k})

EndsWith(s, a) == Len(a) <= Len(s) /\ SubSeq(s, Len(s) - Len(a) + 1, Len(s)) = a
StartsWith(s, b) == Len(b) <= Len(s) /\ SubSeq(s, 1, Len(b)) = b

\* s.replace(k, v): every non-overlapping occurrence, scanning from the left
RECURSIVE Replace(_, _, _)
Replace(s, k, v) ==
    IF Len(s) < Len(k) THEN s
    ELSE IF SubSeq(s, 1, Len(k)) = k
         THEN v \o Replace(SubSeq(s, Len(k) + 1, Len(s)), k, v)
         ELSE <<Head(s)>> \o Replace(Tail(s), k, v)

\* str(n) for a natural number n
Digit(d) == CASE d = 0 -> "0" [] d = 1 -> "1" [] d = 2 -> "2" [] d = 3 -> "3"
              [] d = 4 -> "4" [] d = 5 -> "5" [] d = 6 -> "6" [] d = 7 -> "7"
              [] d = 8 -> "8" [] d = 9 -> "9"
RECURSIVE Str(_)
Str(n) == IF n < 10 THEN <<Digit(n)>> ELSE Str(n \div 10) \o <<Digit(n % 10)>>

\* d.get(k, default)
Get(d, k, default) == IF k \in DOMAIN d THEN d[k] ELSE default

----------------------------------------------------------------------------
(* fill_ppt_text *)

Braced(name) == <<"{", "{">> \o name \o <<"}", "}">>

TokSermonTitle == Braced(<<"seol", "gyo", "je", "mok">>)
TokPreacher == Braced(<<"seol", "gyo", "ja">>)
TokPrayerPerson == Braced(<<"gi", "do", "ja">>)
TokBibleRef == Braced(<<"seong", "gyeong", "bon", "mun">>)
TokBibleText == Braced(<<"mal", "sseum", "nae", "yong">>)

\* f"{{{{chansong{i+1}}}}}" with i = n - 1
HymnToken(n) == Braced(<<"chan", "song">> \o Str(n))

\* as replacements, the hymn tokens numbered from 0 as enumerate counts
replacements_zero_based(d) ==
    LET hymns == Get(d, "hymn_list", <<>>)
    IN  << <<TokSermonTitle, Get(d, "sermon_title", <<>>)>>,
           <<TokPreacher, Get(d, "preacher", <<>>)>>,
           <<TokPrayerPerson, Get(d, "prayer_person", <<>>)>>,
           <<TokBibleRef, Get(d, "bible_ref", <<>>)>>,
           <<TokBibleText, Get(d, "bible_text", <<>>)>> >>
        \o [i \in 1..Len(hymns) |-> <<HymnToken(i - 1), hymns[i]>>]

\* the dict built at the top of fill_ppt_text, as its items in insertion order
replacements(d) ==
    LET hymns == Get(d, "hymn_list", <<>>)
    IN  << <<TokSermonTitle, Get(d, "sermon_title", <<>>)>>,
           <<TokPreacher, Get(d, "preacher", <<>>)>>,
           <<TokPrayerPerson, Get(d, "prayer_person", <<>>)>>,
           <<TokBibleRef, Get(d, "bible_ref", <<>>)>>,
           <<TokBibleText, Get(d, "bible_text", <<>>)>> >>
        \o [i \in 1..Len(hymns) |-> <<HymnToken(i), hymns[i]>>]

\* str(v) if v is not None else ""
safe_value(v) == IF v = None THEN <<>> ELSE v

\* one iteration of "for k, v in replacements.items()"
ApplyEntry(text, entry) ==
    IF Contains(text, entry[1])
    THEN Replace(text, entry[1], safe_value(entry[2]))
    ELSE text

\* as ApplyTable, leaving the loop after the first entry found in the text
RECURSIVE ApplyTableBreak(_, _)
ApplyTableBreak(text, table) ==
    IF table = <<>> THEN text
    ELSE IF Contains(text, Head(table)[1]) THEN ApplyEntry(text, Head(table))
    ELSE ApplyTableBreak(text, Tail(table))

\* the whole inner loop over the table for one run, entries taken in order
RECURSIVE ApplyTable(_, _)
ApplyTable(text, table) ==
    IF table = <<>> THEN text
    ELSE ApplyTable(ApplyEntry(text, Head(table)), Tail(table))

RECURSIVE Concat(_)
Concat(p) == IF p = <<>> THEN <<>> ELSE Head(p) \o Concat(Tail(p))

\* as FillRuns, the replacement done on the joined text of the runs, which
\* is put into the first run
FillRunsJoined(p, d) ==
    [r \in 1..Len(p) |-> IF r = 1 THEN ApplyTable(Concat(p), replacements(d)) ELSE <<>>]

\* the traversal: every run of the presentation, in document order
\* (slides, shapes with a text frame and paragraphs are flattened to the
\* sequence of their runs; a presentation is a sequence of run texts)
FillRuns(p, d) == [r \in 1..Len(p) |-> ApplyTable(p[r], replacements(d))]

\* as prs_save, the document saved to the path of the template as well
prs_save_to_path(file, doc) == [file |-> doc, stream |-> doc]

\* output = BytesIO(); prs.save(output): the document goes to the new byte
\* stream; the file the template was loaded from is not written
prs_save(file, doc) == [file |-> file, stream |-> doc]

\* fill_ppt_text: the document is loaded afresh from the template, its runs
\* are rewritten in memory and the result is saved
fill(file, d) == prs_save(file, FillRuns(file, d))
fill_ppt_text(file, d) == fill(file, d).stream

----------------------------------------------------------------------------
(* load_api_key / save_api_key *)

Raised == <<"<raised>">>

\* Characters.  A printable ASCII character is the one-character string (the
\* backquote is "tick"); tab, newline, carriage return and form feed are
\* "\t", "\n", "\r", "\f"; any other character is named by its code point,
\* "U+00E9", except the Hangul syllables of the tokens and of the file name,
\* which keep their romanised names.

\* the characters json.dump writes as a backslash and a letter
ShortEscape ==
    "\"" :> "\"" @@ "\\" :> "\\" @@ "\n" :> "n" @@ "\r" :> "r" @@ "\t" :> "t" @@
    "\f" :> "f" @@ "U+000C" :> "f" @@ "U+0008" :> "b"

\* the characters json.dump (ensure_ascii) writes as \uXXXX, with what follows
\* the backslash: control characters without a short escape, DEL and the
\* characters above ASCII, those beyond U+FFFF as a surrogate pair.  The
\* table lists the characters the model has a name for: all up to U+00FF,
\* the whitespace of Python, the Hangul syllables and a few more.
WideEscape ==
    "U+0000" :> <<"u", "0", "0", "0", "0">> @@ "U+0001" :> <<"u", "0", "0", "0", "1">> @@
    "U+0002" :> <<"u", "0", "0", "0", "2">> @@ "U+0003" :> <<"u", "0", "0", "0", "3">> @@
    "U+0004" :> <<"u", "0", "0", "0", "4">> @@ "U+0005" :> <<"u", "0", "0", "0", "5">> @@
    "U+0006" :> <<"u", "0", "0", "0", "6">> @@ "U+0007" :> <<"u", "0", "0", "0", "7">> @@
    "U+000B" :> <<"u", "0", "0", "0", "b">> @@ "U+000E" :> <<"u", "0", "0", "0", "e">> @@
    "U+000F" :> <<"u", "0", "0", "0", "f">> @@ "U+0010" :> <<"u", "0", "0", "1", "0">> @@
    "U+0011" :> <<"u", "0", "0", "1", "1">> @@ "U+0012" :> <<"u", "0", "0", "1", "2">> @@
    "U+0013" :> <<"u", "0", "0", "1", "3">> @@ "U+0014" :> <<"u", "0", "0", "1", "4">> @@
    "U+0015" :> <<"u", "0", "0", "1", "5">> @@ "U+0016" :> <<"u", "0", "0", "1", "6">> @@
    "U+0017" :> <<"u", "0", "0", "1", "7">> @@ "U+0018" :> <<"u", "0", "0", "1", "8">> @@
    "U+0019" :> <<"u", "0", "0", "1", "9">> @@ "U+001A" :> <<"u", "0", "0", "1", "a">> @@
    "U+001B" :> <<"u", "0", "0", "1", "b">> @@ "U+001C" :> <<"u", "0", "0", "1", "c">> @@
    "U+001D" :> <<"u", "0", "0", "1", "d">> @@ "U+001E" :> <<"u", "0", "0", "1", "e">> @@
    "U+001F" :> <<"u", "0", "0", "1", "f">> @@ "U+007F" :> <<"u", "0", "0", "7", "f">> @@
    "U+0080" :> <<"u", "0", "0", "8", "0">> @@ "U+0081" :> <<"u", "0", "0", "8", "1">> @@
    "U+0082" :> <<"u", "0", "0", "8", "2">> @@ "U+0083" :> <<"u", "0", "0", "8", "3">> @@
    "U+0084" :> <<"u", "0", "0", "8", "4">> @@ "U+0085" :> <<"u", "0", "0", "8", "5">> @@
    "U+0086" :> <<"u", "0", "0", "8", "6">> @@ "U+0087" :> <<"u", "0", "0", "8", "7">> @@
    "U+0088" :> <<"u", "0", "0", "8", "8">> @@ "U+0089" :> <<"u", "0", "0", "8", "9">> @@
    "U+008A" :> <<"u", "0", "0", "8", "a">> @@ "U+008B" :> <<"u", "0", "0", "8", "b">> @@
    "U+008C" :> <<"u", "0", "0", "8", "c">> @@ "U+008D" :> <<"u", "0", "0", "8", "d">> @@
    "U+008E" :> <<"u", "0", "0", "8", "e">> @@ "U+008F" :> <<"u", "0", "0", "8", "f">> @@
    "U+0090" :> <<"u", "0", "0", "9", "0">> @@ "U+0091" :> <<"u", "0", "0", "9", "1">> @@
    "U+0092" :> <<"u", "0", "0", "9", "2">> @@ "U+0093" :> <<"u", "0", "0", "9", "3">> @@
    "U+0094" :> <<"u", "0", "0", "9", "4">> @@ "U+0095" :> <<"u", "0", "0", "9", "5">> @@
    "U+0096" :> <<"u", "0", "0", "9", "6">> @@ "U+0097" :> <<"u", "0", "0", "9", "7">> @@
    "U+0098" :> <<"u", "0", "0", "9", "8">> @@ "U+0099" :> <<"u", "0", "0", "9", "9">> @@
    "U+009A" :> <<"u", "0", "0", "9", "a">> @@ "U+009B" :> <<"u", "0", "0", "9", "b">> @@
    "U+009C" :> <<"u", "0", "0", "9", "c">> @@ "U+009D" :> <<"u", "0", "0", "9", "d">> @@
    "U+009E" :> <<"u", "0", "0", "9", "e">> @@ "U+009F" :> <<"u", "0", "0", "9", "f">> @@
    "U+00A0" :> <<"u", "0", "0", "a", "0">> @@ "U+00A1" :> <<"u", "0", "0", "a", "1">> @@
    "U+00A2" :> <<"u", "0", "0", "a", "2">> @@ "U+00A3" :> <<"u", "0", "0", "a", "3">> @@
    "U+00A4" :> <<"u", "0", "0", "a", "4">> @@ "U+00A5" :> <<"u", "0", "0", "a", "5">> @@
    "U+00A6" :> <<"u", "0", "0", "a", "6">> @@ "U+00A7" :> <<"u", "0", "0", "a", "7">> @@
    "U+00A8" :> <<"u", "0", "0", "a", "8">> @@ "U+00A9" :> <<"u", "0", "0", "a", "9">> @@
    "U+00AA" :> <<"u", "0", "0", "a", "a">> @@ "U+00AB" :> <<"u", "0", "0", "a", "b">> @@
    "U+00AC" :> <<"u", "0", "0", "a", "c">> @@ "U+00AD" :> <<"u", "0", "0", "a", "d">> @@
    "U+00AE" :> <<"u", "0", "0", "a", "e">> @@ "U+00AF" :> <<"u", "0", "0", "a", "f">> @@
    "U+00B0" :> <<"u", "0", "0", "b", "0">> @@ "U+00B1" :> <<"u", "0", "0", "b", "1">> @@
    "U+00B2" :> <<"u", "0", "0", "b", "2">> @@ "U+00B3" :> <<"u", "0", "0", "b", "3">> @@
    "U+00B4" :> <<"u", "0", "0", "b", "4">> @@ "U+00B5" :> <<"u", "0", "0", "b", "5">> @@
    "U+00B6" :> <<"u", "0", "0", "b", "6">> @@ "U+00B7" :> <<"u", "0", "0", "b", "7">> @@
    "U+00B8" :> <<"u", "0", "0", "b", "8">> @@ "U+00B9" :> <<"u", "0", "0", "b", "9">> @@
    "U+00BA" :> <<"u", "0", "0", "b", "a">> @@ "U+00BB" :> <<"u", "0", "0", "b", "b">> @@
    "U+00BC" :> <<"u", "0", "0", "b", "c">> @@ "U+00BD" :> <<"u", "0", "0", "b", "d">> @@
    "U+00BE" :> <<"u", "0", "0", "b", "e">> @@ "U+00BF" :> <<"u", "0", "0", "b", "f">> @@
    "U+00C0" :> <<"u", "0", "0", "c", "0">> @@ "U+00C1" :> <<"u", "0", "0", "c", "1">> @@
    "U+00C2" :> <<"u", "0", "0", "c", "2">> @@ "U+00C3" :> <<"u", "0", "0", "c", "3">> @@
    "U+00C4" :> <<"u", "0", "0", "c", "4">> @@ "U+00C5" :> <<"u", "0", "0", "c", "5">> @@
    "U+00C6" :> <<"u", "0", "0", "c", "6">> @@ "U+00C7" :> <<"u", "0", "0", "c", "7">> @@
    "U+00C8" :> <<"u", "0", "0", "c", "8">> @@ "U+00C9" :> <<"u", "0", "0", "c", "9">> @@
    "U+00CA" :> <<"u", "0", "0", "c", "a">> @@ "U+00CB" :> <<"u", "0", "0", "c", "b">> @@
    "U+00CC" :> <<"u", "0", "0", "c", "c">> @@ "U+00CD" :> <<"u", "0", "0", "c", "d">> @@
    "U+00CE" :> <<"u", "0", "0", "c", "e">> @@ "U+00CF" :> <<"u", "0", "0", "c", "f">> @@
    "U+00D0" :> <<"u", "0", "0", "d", "0">> @@ "U+00D1" :> <<"u", "0", "0", "d", "1">> @@
    "U+00D2" :> <<"u", "0", "0", "d", "2">> @@ "U+00D3" :> <<"u", "0", "0", "d", "3">> @@
    "U+00D4" :> <<"u", "0", "0", "d", "4">> @@ "U+00D5" :> <<"u", "0", "0", "d", "5">> @@
    "U+00D6" :> <<"u", "0", "0", "d", "6">> @@ "U+00D7" :> <<"u", "0", "0", "d", "7">> @@
    "U+00D8" :> <<"u", "0", "0", "d", "8">> @@ "U+00D9" :> <<"u", "0", "0", "d", "9">> @@
    "U+00DA" :> <<"u", "0", "0", "d", "a">> @@ "U+00DB" :> <<"u", "0", "0", "d", "b">> @@
    "U+00DC" :> <<"u", "0", "0", "d", "c">> @@ "U+00DD" :> <<"u", "0", "0", "d", "d">> @@
    "U+00DE" :> <<"u", "0", "0", "d", "e">> @@ "U+00DF" :> <<"u", "0", "0", "d", "f">> @@
    "U+00E0" :> <<"u", "0", "0", "e", "0">> @@ "U+00E1" :> <<"u", "0", "0", "e", "1">> @@
    "U+00E2" :> <<"u", "0", "0", "e", "2">> @@ "U+00E3" :> <<"u", "0", "0", "e", "3">> @@
    "U+00E4" :> <<"u", "0", "0", "e", "4">> @@ "U+00E5" :> <<"u", "0", "0", "e", "5">> @@
    "U+00E6" :> <<"u", "0", "0", "e", "6">> @@ "U+00E7" :> <<"u", "0", "0", "e", "7">> @@
    "U+00E8" :> <<"u", "0", "0", "e", "8">> @@ "U+00E9" :> <<"u", "0", "0", "e", "9">> @@
    "U+00EA" :> <<"u", "0", "0", "e", "a">> @@ "U+00EB" :> <<"u", "0", "0", "e", "b">> @@
    "U+00EC" :> <<"u", "0", "0", "e", "c">> @@ "U+00ED" :> <<"u", "0", "0", "e", "d">> @@
    "U+00EE" :> <<"u", "0", "0", "e", "e">> @@ "U+00EF" :> <<"u", "0", "0", "e", "f">> @@
    "U+00F0" :> <<"u", "0", "0", "f", "0">> @@ "U+00F1" :> <<"u", "0", "0", "f", "1">> @@
    "U+00F2" :> <<"u", "0", "0", "f", "2">> @@ "U+00F3" :> <<"u", "0", "0", "f", "3">> @@
    "U+00F4" :> <<"u", "0", "0", "f", "4">> @@ "U+00F5" :> <<"u", "0", "0", "f", "5">> @@
    "U+00F6" :> <<"u", "0", "0", "f", "6">> @@ "U+00F7" :> <<"u", "0", "0", "f", "7">> @@
    "U+00F8" :> <<"u", "0", "0", "f", "8">> @@ "U+00F9" :> <<"u", "0", "0", "f", "9">> @@
    "U+00FA" :> <<"u", "0", "0", "f", "a">> @@ "U+00FB" :> <<"u", "0", "0", "f", "b">> @@
    "U+00FC" :> <<"u", "0", "0", "f", "c">> @@ "U+00FD" :> <<"u", "0", "0", "f", "d">> @@
    "U+00FE" :> <<"u", "0", "0", "f", "e">> @@ "U+00FF" :> <<"u", "0", "0", "f", "f">> @@
    "U+1680" :> <<"u", "1", "6", "8", "0">> @@ "U+2000" :> <<"u", "2", "0", "0", "0">> @@
    "U+2001" :> <<"u", "2", "0", "0", "1">> @@ "U+2002" :> <<"u", "2", "0", "0", "2">> @@
    "U+2003" :> <<"u", "2", "0", "0", "3">> @@ "U+2004" :> <<"u", "2", "0", "0", "4">> @@
    "U+2005" :> <<"u", "2", "0", "0", "5">> @@ "U+2006" :> <<"u", "2", "0", "0", "6">> @@
    "U+2007" :> <<"u", "2", "0", "0", "7">> @@ "U+2008" :> <<"u", "2", "0", "0", "8">> @@
    "U+2009" :> <<"u", "2", "0", "0", "9">> @@ "U+200A" :> <<"u", "2", "0", "0", "a">> @@
    "U+200B" :> <<"u", "2", "0", "0", "b">> @@ "U+2028" :> <<"u", "2", "0", "2", "8">> @@
    "U+2029" :> <<"u", "2", "0", "2", "9">> @@ "U+202F" :> <<"u", "2", "0", "2", "f">> @@
    "U+205F" :> <<"u", "2", "0", "5", "f">> @@ "U+20AC" :> <<"u", "2", "0", "a", "c">> @@
    "U+3000" :> <<"u", "3", "0", "0", "0">> @@ "U+4E2D" :> <<"u", "4", "e", "2", "d">> @@
    "U+D0A4" :> <<"u", "d", "0", "a", "4">> @@ "U+D55C" :> <<"u", "d", "5", "5", "c">> @@
    "U+AE00" :> <<"u", "a", "e", "0", "0">> @@ "U+FEFF" :> <<"u", "f", "e", "f", "f">> @@
    "U+D83D" :> <<"u", "d", "8", "3", "d">> @@ "U+DE00" :> <<"u", "d", "e", "0", "0">> @@
    "U+DD4A" :> <<"u", "d", "d", "4", "a">> @@ "seol" :> <<"u", "c", "1", "2", "4">> @@
    "gyo" :> <<"u", "a", "d", "5", "0">> @@ "je" :> <<"u", "c", "8", "1", "c">> @@
    "mok" :> <<"u", "b", "a", "a", "9">> @@ "ja" :> <<"u", "c", "7", "9", "0">> @@
    "gi" :> <<"u", "a", "e", "3", "0">> @@ "do" :> <<"u", "b", "3", "c", "4">> @@
    "seong" :> <<"u", "c", "1", "3", "1">> @@ "gyeong" :> <<"u", "a", "c", "b", "d">> @@
    "bon" :> <<"u", "b", "c", "f", "8">> @@ "mun" :> <<"u", "b", "b", "3", "8">> @@
    "mal" :> <<"u", "b", "9", "d", "0">> @@ "sseum" :> <<"u", "c", "5", "0", "0">> @@
    "nae" :> <<"u", "b", "0", "b", "4">> @@ "yong" :> <<"u", "c", "6", "a", "9">> @@
    "chan" :> <<"u", "c", "c", "2", "c">> @@ "song" :> <<"u", "c", "1", "a", "1">> @@
    "ye" :> <<"u", "c", "6", "0", "8">> @@ "bae" :> <<"u", "b", "c", "3", "0">> @@
    "U+1F600" :> <<"u", "d", "8", "3", "d", "\\", "u", "d", "e", "0", "0">> @@
    "U+1F54A" :> <<"u", "d", "8", "3", "d", "\\", "u", "d", "d", "4", "a">>

\* the string s as json.dump writes it, without the quotes around it
RECURSIVE Escape(_)
Escape(s) ==
    IF s = <<>> THEN <<>>
    ELSE (IF Head(s) \in DOMAIN ShortEscape THEN <<"\\", ShortEscape[Head(s)]>>
          ELSE IF Head(s) \in DOMAIN WideEscape THEN <<"\\">> \o WideEscape[Head(s)]
          ELSE <<Head(s)>>)
         \o Escape(Tail(s))

ConfigPrefix == <<"{", "\"", "a", "p", "i", "_", "k", "e", "y", "\"", ":", " ", "\"">>
ConfigSuffix == <<"\"", "}">>

\* json.dump({"api_key": key}, f)
json_dump_config(key) == ConfigPrefix \o Escape(key) \o ConfigSuffix

\* the letter after a backslash in a JSON string, and the character it stands for
ShortUnescape ==
    "\"" :> "\"" @@ "\\" :> "\\" @@ "/" :> "/" @@ "n" :> "\n" @@ "r" :> "\r" @@
    "t" :> "\t" @@ "f" :> "\f" @@ "b" :> "U+0008"

\* the character of a \uXXXX escape, by its four hexadecimal digits (the
\* characters the model has a name for)
CodePoint ==
    <<"0", "0", "2", "0">> :> " " @@ <<"0", "0", "2", "1">> :> "!" @@
    <<"0", "0", "2", "2">> :> "\"" @@ <<"0", "0", "2", "3">> :> "#" @@
    <<"0", "0", "2", "4">> :> "$" @@ <<"0", "0", "2", "5">> :> "%" @@
    <<"0", "0", "2", "6">> :> "&" @@ <<"0", "0", "2", "7">> :> "'" @@
    <<"0", "0", "2", "8">> :> "(" @@ <<"0", "0", "2", "9">> :> ")" @@
    <<"0", "0", "2", "a">> :> "*" @@ <<"0", "0", "2", "b">> :> "+" @@
    <<"0", "0", "2", "c">> :> "," @@ <<"0", "0", "2", "d">> :> "-" @@
    <<"0", "0", "2", "e">> :> "." @@ <<"0", "0", "2", "f">> :> "/" @@
    <<"0", "0", "3", "0">> :> "0" @@ <<"0", "0", "3", "1">> :> "1" @@
    <<"0", "0", "3", "2">> :> "2" @@ <<"0", "0", "3", "3">> :> "3" @@
    <<"0", "0", "3", "4">> :> "4" @@ <<"0", "0", "3", "5">> :> "5" @@
    <<"0", "0", "3", "6">> :> "6" @@ <<"0", "0", "3", "7">> :> "7" @@
    <<"0", "0", "3", "8">> :> "8" @@ <<"0", "0", "3", "9">> :> "9" @@
    <<"0", "0", "3", "a">> :> ":" @@ <<"0", "0", "3", "b">> :> ";" @@
    <<"0", "0", "3", "c">> :> "<" @@ <<"0", "0", "3", "d">> :> "=" @@
    <<"0", "0", "3", "e">> :> ">" @@ <<"0", "0", "3", "f">> :> "?" @@
    <<"0", "0", "4", "0">> :> "@" @@ <<"0", "0", "4", "1">> :> "A" @@
    <<"0", "0", "4", "2">> :> "B" @@ <<"0", "0", "4", "3">> :> "C" @@
    <<"0", "0", "4", "4">> :> "D" @@ <<"0", "0", "4", "5">> :> "E" @@
    <<"0", "0", "4", "6">> :> "F" @@ <<"0", "0", "4", "7">> :> "G" @@
    <<"0", "0", "4", "8">> :> "H" @@ <<"0", "0", "4", "9">> :> "I" @@
    <<"0", "0", "4", "a">> :> "J" @@ <<"0", "0", "4", "b">> :> "K" @@
    <<"0", "0", "4", "c">> :> "L" @@ <<"0", "0", "4", "d">> :> "M" @@
    <<"0", "0", "4", "e">> :> "N" @@ <<"0", "0", "4", "f">> :> "O" @@
    <<"0", "0", "5", "0">> :> "P" @@ <<"0", "0", "5", "1">> :> "Q" @@
    <<"0", "0", "5", "2">> :> "R" @@ <<"0", "0", "5", "3">> :> "S" @@
    <<"0", "0", "5", "4">> :> "T" @@ <<"0", "0", "5", "5">> :> "U" @@
    <<"0", "0", "5", "6">> :> "V" @@ <<"0", "0", "5", "7">> :> "W" @@
    <<"0", "0", "5", "8">> :> "X" @@ <<"0", "0", "5", "9">> :> "Y" @@
    <<"0", "0", "5", "a">> :> "Z" @@ <<"0", "0", "5", "b">> :> "[" @@
    <<"0", "0", "5", "c">> :> "\\" @@ <<"0", "0", "5", "d">> :> "]" @@
    <<"0", "0", "5", "e">> :> "^" @@ <<"0", "0", "5", "f">> :> "_" @@
    <<"0", "0", "6", "0">> :> "tick" @@ <<"0", "0", "6", "1">> :> "a" @@
    <<"0", "0", "6", "2">> :> "b" @@ <<"0", "0", "6", "3">> :> "c" @@
    <<"0", "0", "6", "4">> :> "d" @@ <<"0", "0", "6", "5">> :> "e" @@
    <<"0", "0", "6", "6">> :> "f" @@ <<"0", "0", "6", "7">> :> "g" @@
    <<"0", "0", "6", "8">> :> "h" @@ <<"0", "0", "6", "9">> :> "i" @@
    <<"0", "0", "6", "a">> :> "j" @@ <<"0", "0", "6", "b">> :> "k" @@
    <<"0", "0", "6", "c">> :> "l" @@ <<"0", "0", "6", "d">> :> "m" @@
    <<"0", "0", "6", "e">> :> "n" @@ <<"0", "0", "6", "f">> :> "o" @@
    <<"0", "0", "7", "0">> :> "p" @@ <<"0", "0", "7", "1">> :> "q" @@
    <<"0", "0", "7", "2">> :> "r" @@ <<"0", "0", "7", "3">> :> "s" @@
    <<"0", "0", "7", "4">> :> "t" @@ <<"0", "0", "7", "5">> :> "u" @@
    <<"0", "0", "7", "6">> :> "v" @@ <<"0", "0", "7", "7">> :> "w" @@
    <<"0", "0", "7", "8">> :> "x" @@ <<"0", "0", "7", "9">> :> "y" @@
    <<"0", "0", "7", "a">> :> "z" @@ <<"0", "0", "7", "b">> :> "{" @@
    <<"0", "0", "7", "c">> :> "|" @@ <<"0", "0", "7", "d">> :> "}" @@
    <<"0", "0", "7", "e">> :> "~" @@ <<"0", "0", "0", "8">> :> "U+0008" @@
    <<"0", "0", "0", "9">> :> "\t" @@ <<"0", "0", "0", "a">> :> "\n" @@
    <<"0", "0", "0", "c">> :> "\f" @@ <<"0", "0", "0", "d">> :> "\r" @@
    <<"0", "0", "0", "0">> :> "U+0000" @@ <<"0", "0", "0", "1">> :> "U+0001" @@
    <<"0", "0", "0", "2">> :> "U+0002" @@ <<"0", "0", "0", "3">> :> "U+0003" @@
    <<"0", "0", "0", "4">> :> "U+0004" @@ <<"0", "0", "0", "5">> :> "U+0005" @@
    <<"0", "0", "0", "6">> :> "U+0006" @@ <<"0", "0", "0", "7">> :> "U+0007" @@
    <<"0", "0", "0", "b">> :> "U+000B" @@ <<"0", "0", "0", "e">> :> "U+000E" @@
    <<"0", "0", "0", "f">> :> "U+000F" @@ <<"0", "0", "1", "0">> :> "U+0010" @@
    <<"0", "0", "1", "1">> :> "U+0011" @@ <<"0", "0", "1", "2">> :> "U+0012" @@
    <<"0", "0", "1", "3">> :> "U+0013" @@ <<"0", "0", "1", "4">> :> "U+0014" @@
    <<"0", "0", "1", "5">> :> "U+0015" @@ <<"0", "0", "1", "6">> :> "U+0016" @@
    <<"0", "0", "1", "7">> :> "U+0017" @@ <<"0", "0", "1", "8">> :> "U+0018" @@
    <<"0", "0", "1", "9">> :> "U+0019" @@ <<"0", "0", "1", "a">> :> "U+001A" @@
    <<"0", "0", "1", "b">> :> "U+001B" @@ <<"0", "0", "1", "c">> :> "U+001C" @@
    <<"0", "0", "1", "d">> :> "U+001D" @@ <<"0", "0", "1", "e">> :> "U+001E" @@
    <<"0", "0", "1", "f">> :> "U+001F" @@ <<"0", "0", "7", "f">> :> "U+007F" @@
    <<"0", "0", "8", "0">> :> "U+0080" @@ <<"0", "0", "8", "1">> :> "U+0081" @@
    <<"0", "0", "8", "2">> :> "U+0082" @@ <<"0", "0", "8", "3">> :> "U+0083" @@
    <<"0", "0", "8", "4">> :> "U+0084" @@ <<"0", "0", "8", "5">> :> "U+0085" @@
    <<"0", "0", "8", "6">> :> "U+0086" @@ <<"0", "0", "8", "7">> :> "U+0087" @@
    <<"0", "0", "8", "8">> :> "U+0088" @@ <<"0", "0", "8", "9">> :> "U+0089" @@
    <<"0", "0", "8", "a">> :> "U+008A" @@ <<"0", "0", "8", "b">> :> "U+008B" @@
    <<"0", "0", "8", "c">> :> "U+008C" @@ <<"0", "0", "8", "d">> :> "U+008D" @@
    <<"0", "0", "8", "e">> :> "U+008E" @@ <<"0", "0", "8", "f">> :> "U+008F" @@
    <<"0", "0", "9", "0">> :> "U+0090" @@ <<"0", "0", "9", "1">> :> "U+0091" @@
    <<"0", "0", "9", "2">> :> "U+0092" @@ <<"0", "0", "9", "3">> :> "U+0093" @@
    <<"0", "0", "9", "4">> :> "U+0094" @@ <<"0", "0", "9", "5">> :> "U+0095" @@
    <<"0", "0", "9", "6">> :> "U+0096" @@ <<"0", "0", "9", "7">> :> "U+0097" @@
    <<"0", "0", "9", "8">> :> "U+0098" @@ <<"0", "0", "9", "9">> :> "U+0099" @@
    <<"0", "0", "9", "a">> :> "U+009A" @@ <<"0", "0", "9", "b">> :> "U+009B" @@
    <<"0", "0", "9", "c">> :> "U+009C" @@ <<"0", "0", "9", "d">> :> "U+009D" @@
    <<"0", "0", "9", "e">> :> "U+009E" @@ <<"0", "0", "9", "f">> :> "U+009F" @@
    <<"0", "0", "a", "0">> :> "U+00A0" @@ <<"0", "0", "a", "1">> :> "U+00A1" @@
    <<"0", "0", "a", "2">> :> "U+00A2" @@ <<"0", "0", "a", "3">> :> "U+00A3" @@
    <<"0", "0", "a", "4">> :> "U+00A4" @@ <<"0", "0", "a", "5">> :> "U+00A5" @@
    <<"0", "0", "a", "6">> :> "U+00A6" @@ <<"0", "0", "a", "7">> :> "U+00A7" @@
    <<"0", "0", "a", "8">> :> "U+00A8" @@ <<"0", "0", "a", "9">> :> "U+00A9" @@
    <<"0", "0", "a", "a">> :> "U+00AA" @@ <<"0", "0", "a", "b">> :> "U+00AB" @@
    <<"0", "0", "a", "c">> :> "U+00AC" @@ <<"0", "0", "a", "d">> :> "U+00AD" @@
    <<"0", "0", "a", "e">> :> "U+00AE" @@ <<"0", "0", "a", "f">> :> "U+00AF" @@
    <<"0", "0", "b", "0">> :> "U+00B0" @@ <<"0", "0", "b", "1">> :> "U+00B1" @@
    <<"0", "0", "b", "2">> :> "U+00B2" @@ <<"0", "0", "b", "3">> :> "U+00B3" @@
    <<"0", "0", "b", "4">> :> "U+00B4" @@ <<"0", "0", "b", "5">> :> "U+00B5" @@
    <<"0", "0", "b", "6">> :> "U+00B6" @@ <<"0", "0", "b", "7">> :> "U+00B7" @@
    <<"0", "0", "b", "8">> :> "U+00B8" @@ <<"0", "0", "b", "9">> :> "U+00B9" @@
    <<"0", "0", "b", "a">> :> "U+00BA" @@ <<"0", "0", "b", "b">> :> "U+00BB" @@
    <<"0", "0", "b", "c">> :> "U+00BC" @@ <<"0", "0", "b", "d">> :> "U+00BD" @@
    <<"0", "0", "b", "e">> :> "U+00BE" @@ <<"0", "0", "b", "f">> :> "U+00BF" @@
    <<"0", "0", "c", "0">> :> "U+00C0" @@ <<"0", "0", "c", "1">> :> "U+00C1" @@
    <<"0", "0", "c", "2">> :> "U+00C2" @@ <<"0", "0", "c", "3">> :> "U+00C3" @@
    <<"0", "0", "c", "4">> :> "U+00C4" @@ <<"0", "0", "c", "5">> :> "U+00C5" @@
    <<"0", "0", "c", "6">> :> "U+00C6" @@ <<"0", "0", "c", "7">> :> "U+00C7" @@
    <<"0", "0", "c", "8">> :> "U+00C8" @@ <<"0", "0", "c", "9">> :> "U+00C9" @@
    <<"0", "0", "c", "a">> :> "U+00CA" @@ <<"0", "0", "c", "b">> :> "U+00CB" @@
    <<"0", "0", "c", "c">> :> "U+00CC" @@ <<"0", "0", "c", "d">> :> "U+00CD" @@
    <<"0", "0", "c", "e">> :> "U+00CE" @@ <<"0", "0", "c", "f">> :> "U+00CF" @@
    <<"0", "0", "d", "0">> :> "U+00D0" @@ <<"0", "0", "d", "1">> :> "U+00D1" @@
    <<"0", "0", "d", "2">> :> "U+00D2" @@ <<"0", "0", "d", "3">> :> "U+00D3" @@
    <<"0", "0", "d", "4">> :> "U+00D4" @@ <<"0", "0", "d", "5">> :> "U+00D5" @@
    <<"0", "0", "d", "6">> :> "U+00D6" @@ <<"0", "0", "d", "7">> :> "U+00D7" @@
    <<"0", "0", "d", "8">> :> "U+00D8" @@ <<"0", "0", "d", "9">> :> "U+00D9" @@
    <<"0", "0", "d", "a">> :> "U+00DA" @@ <<"0", "0", "d", "b">> :> "U+00DB" @@
    <<"0", "0", "d", "c">> :> "U+00DC" @@ <<"0", "0", "d", "d">> :> "U+00DD" @@
    <<"0", "0", "d", "e">> :> "U+00DE" @@ <<"0", "0", "d", "f">> :> "U+00DF" @@
    <<"0", "0", "e", "0">> :> "U+00E0" @@ <<"0", "0", "e", "1">> :> "U+00E1" @@
    <<"0", "0", "e", "2">> :> "U+00E2" @@ <<"0", "0", "e", "3">> :> "U+00E3" @@
    <<"0", "0", "e", "4">> :> "U+00E4" @@ <<"0", "0", "e", "5">> :> "U+00E5" @@
    <<"0", "0", "e", "6">> :> "U+00E6" @@ <<"0", "0", "e", "7">> :> "U+00E7" @@
    <<"0", "0", "e", "8">> :> "U+00E8" @@ <<"0", "0", "e", "9">> :> "U+00E9" @@
    <<"0", "0", "e", "a">> :> "U+00EA" @@ <<"0", "0", "e", "b">> :> "U+00EB" @@
    <<"0", "0", "e", "c">> :> "U+00EC" @@ <<"0", "0", "e", "d">> :> "U+00ED" @@
    <<"0", "0", "e", "e">> :> "U+00EE" @@ <<"0", "0", "e", "f">> :> "U+00EF" @@
    <<"0", "0", "f", "0">> :> "U+00F0" @@ <<"0", "0", "f", "1">> :> "U+00F1" @@
    <<"0", "0", "f", "2">> :> "U+00F2" @@ <<"0", "0", "f", "3">> :> "U+00F3" @@
    <<"0", "0", "f", "4">> :> "U+00F4" @@ <<"0", "0", "f", "5">> :> "U+00F5" @@
    <<"0", "0", "f", "6">> :> "U+00F6" @@ <<"0", "0", "f", "7">> :> "U+00F7" @@
    <<"0", "0", "f", "8">> :> "U+00F8" @@ <<"0", "0", "f", "9">> :> "U+00F9" @@
    <<"0", "0", "f", "a">> :> "U+00FA" @@ <<"0", "0", "f", "b">> :> "U+00FB" @@
    <<"0", "0", "f", "c">> :> "U+00FC" @@ <<"0", "0", "f", "d">> :> "U+00FD" @@
    <<"0", "0", "f", "e">> :> "U+00FE" @@ <<"0", "0", "f", "f">> :> "U+00FF" @@
    <<"1", "6", "8", "0">> :> "U+1680" @@ <<"2", "0", "0", "0">> :> "U+2000" @@
    <<"2", "0", "0", "1">> :> "U+2001" @@ <<"2", "0", "0", "2">> :> "U+2002" @@
    <<"2", "0", "0", "3">> :> "U+2003" @@ <<"2", "0", "0", "4">> :> "U+2004" @@
    <<"2", "0", "0", "5">> :> "U+2005" @@ <<"2", "0", "0", "6">> :> "U+2006" @@
    <<"2", "0", "0", "7">> :> "U+2007" @@ <<"2", "0", "0", "8">> :> "U+2008" @@
    <<"2", "0", "0", "9">> :> "U+2009" @@ <<"2", "0", "0", "a">> :> "U+200A" @@
    <<"2", "0", "0", "b">> :> "U+200B" @@ <<"2", "0", "2", "8">> :> "U+2028" @@
    <<"2", "0", "2", "9">> :> "U+2029" @@ <<"2", "0", "2", "f">> :> "U+202F" @@
    <<"2", "0", "5", "f">> :> "U+205F" @@ <<"2", "0", "a", "c">> :> "U+20AC" @@
    <<"3", "0", "0", "0">> :> "U+3000" @@ <<"4", "e", "2", "d">> :> "U+4E2D" @@
    <<"d", "0", "a", "4">> :> "U+D0A4" @@ <<"d", "5", "5", "c">> :> "U+D55C" @@
    <<"a", "e", "0", "0">> :> "U+AE00" @@ <<"f", "e", "f", "f">> :> "U+FEFF" @@
    <<"d", "8", "3", "d">> :> "U+D83D" @@ <<"d", "e", "0", "0">> :> "U+DE00" @@
    <<"d", "d", "4", "a">> :> "U+DD4A" @@ <<"c", "1", "2", "4">> :> "seol" @@
    <<"a", "d", "5", "0">> :> "gyo" @@ <<"c", "8", "1", "c">> :> "je" @@
    <<"b", "a", "a", "9">> :> "mok" @@ <<"c", "7", "9", "0">> :> "ja" @@
    <<"a", "e", "3", "0">> :> "gi" @@ <<"b", "3", "c", "4">> :> "do" @@
    <<"c", "1", "3", "1">> :> "seong" @@ <<"a", "c", "b", "d">> :> "gyeong" @@
    <<"b", "c", "f", "8">> :> "bon" @@ <<"b", "b", "3", "8">> :> "mun" @@
    <<"b", "9", "d", "0">> :> "mal" @@ <<"c", "5", "0", "0">> :> "sseum" @@
    <<"b", "0", "b", "4">> :> "nae" @@ <<"c", "6", "a", "9">> :> "yong" @@
    <<"c", "c", "2", "c">> :> "chan" @@ <<"c", "1", "a", "1">> :> "song" @@
    <<"c", "6", "0", "8">> :> "ye" @@ <<"b", "c", "3", "0">> :> "bae"

\* the character of a surrogate pair \uXXXX\uXXXX, by its eight digits
PairPoint ==
    <<"d", "8", "3", "d", "d", "e", "0", "0">> :> "U+1F600" @@
    <<"d", "8", "3", "d", "d", "d", "4", "a">> :> "U+1F54A"

LowerHex(c) ==
    CASE c = "A" -> "a" [] c = "B" -> "b" [] c = "C" -> "c" [] c = "D" -> "d"
      [] c = "E" -> "e" [] c = "F" -> "f" [] OTHER -> c

\* a character below U+0020, which a JSON string may not hold unescaped
IsControl(c) ==
    \/ c \in {"\n", "\r", "\t", "\f", "U+0008", "U+000C"}
    \/ c \in DOMAIN WideEscape /\ SubSeq(WideEscape[c], 1, 3) = <<"u", "0", "0">>
          /\ WideEscape[c][4] \in {"0", "1"} /\ Len(WideEscape[c]) = 5

\* the string literal body at the start of s, up to its closing quote:
\* the decoded string and what follows the quote, or Raised
\* the four hexadecimal digits from position i of s, in lower case
HexAt(s, i) == [j \in 1..4 |-> LowerHex(s[i + j - 1])]

RECURSIVE ScanString(_, _)
ScanString(s, acc) ==
    IF s = <<>> THEN Raised
    ELSE IF Head(s) = "\"" THEN <<acc, Tail(s)>>
    ELSE IF Head(s) = "\\"
         THEN IF Len(s) >= 2 /\ s[2] \in DOMAIN ShortUnescape
              THEN ScanString(SubSeq(s, 3, Len(s)), Append(acc, ShortUnescape[s[2]]))
              ELSE IF Len(s) >= 12 /\ s[2] = "u" /\ s[7] = "\\" /\ s[8] = "u"
                      /\ HexAt(s, 3) \o HexAt(s, 9) \in DOMAIN PairPoint
              THEN ScanString(SubSeq(s, 13, Len(s)),
                              Append(acc, PairPoint[HexAt(s, 3) \o HexAt(s, 9)]))
              ELSE IF Len(s) >= 6 /\ s[2] = "u" /\ HexAt(s, 3) \in DOMAIN CodePoint
              THEN ScanString(SubSeq(s, 7, Len(s)), Append(acc, CodePoint[HexAt(s, 3)]))
              ELSE Raised
    ELSE IF IsControl(Head(s)) THEN Raised
    ELSE ScanString(Tail(s), Append(acc, Head(s)))

\* the whitespace json.load skips
IsJsonSpace(c) == c \in {" ", "\t", "\n", "\r"}
RECURSIVE SkipSpace(_)
SkipSpace(s) == IF s # <<>> /\ IsJsonSpace(Head(s)) THEN SkipSpace(Tail(s)) ELSE s

IsDigit(c) == c \in {"0", "1", "2", "3", "4", "5", "6", "7", "8", "9"}
RECURSIVE SkipDigits(_)
SkipDigits(s) == IF s # <<>> /\ IsDigit(Head(s)) THEN SkipDigits(Tail(s)) ELSE s

\* What the parser gives for the text of a value: ok is FALSE when json.load
\* raises; kind is the type of the value; str is the string when it is one;
\* get is, for an object, what .get("api_key", "") returns; rest is the text
\* after the value.
Parsed(kind, str, get, rest) ==
    [ok |-> TRUE, kind |-> kind, str |-> str, get |-> get, rest |-> rest]
ParseError == [ok |-> FALSE, kind |-> "", str |-> <<>>, get |-> <<>>, rest |-> <<>>]

\* a value other than a string or null, as the object load_api_key returns
Opaque(kind) == <<"<object>", kind>>

\* the value of a member, as .get returns it
Gotten(v) ==
    IF v.kind = "str" THEN v.str ELSE IF v.kind = "NoneType" THEN None ELSE Opaque(v.kind)

ApiKeyName == <<"a", "p", "i", "_", "k", "e", "y">>

\* a number at the start of s: -?(0|[1-9][0-9]*)(.[0-9]+)?([eE][-+]?[0-9]+)?
ParseNumber(s) ==
    LET unsigned == IF s # <<>> /\ Head(s) = "-" THEN Tail(s) ELSE s
        afterInt == IF Head(unsigned) = "0" THEN Tail(unsigned) ELSE SkipDigits(unsigned)
        hasFrac == /\ Len(afterInt) >= 2 /\ afterInt[1] = "." /\ IsDigit(afterInt[2])
        afterFrac == IF hasFrac THEN SkipDigits(Tail(afterInt)) ELSE afterInt
        expDigits == IF Len(afterFrac) >= 2 /\ afterFrac[1] \in {"e", "E"}
                     THEN IF afterFrac[2] \in {"+", "-"}
                          THEN SubSeq(afterFrac, 3, Len(afterFrac))
                          ELSE Tail(afterFrac)
                     ELSE <<>>
        hasExp == expDigits # <<>> /\ IsDigit(Head(expDigits))
        afterExp == IF hasExp THEN SkipDigits(expDigits) ELSE afterFrac
    IN  IF unsigned = <<>> \/ ~IsDigit(Head(unsigned)) THEN ParseError
        ELSE Parsed(IF hasFrac \/ hasExp THEN "float" ELSE "int", <<>>, <<>>, afterExp)

Literals ==
    << <<<<"n", "u", "l", "l">>, "NoneType">>,
       <<<<"t", "r", "u", "e">>, "bool">>,
       <<<<"f", "a", "l", "s", "e">>, "bool">>,
       <<<<"N", "a", "N">>, "float">>,
       <<<<"I", "n", "f", "i", "n", "i", "t", "y">>, "float">>,
       <<<<"-", "I", "n", "f", "i", "n", "i", "t", "y">>, "float">> >>

RECURSIVE ParseValue(_), ParseMembers(_, _), ParseElements(_)

\* a JSON value at the start of s
ParseValue(s) ==
    IF s = <<>> THEN ParseError
    ELSE IF Head(s) = "\""
    THEN LET scan == ScanString(Tail(s), <<>>)
         IN  IF scan = Raised THEN ParseError ELSE Parsed("str", scan[1], <<>>, scan[2])
    ELSE IF Head(s) = "{"
    THEN LET body == SkipSpace(Tail(s))
         IN  IF body # <<>> /\ Head(body) = "}"
             THEN Parsed("dict", <<>>, <<>>, Tail(body))
             ELSE ParseMembers(body, <<>>)
    ELSE IF Head(s) = "["
    THEN LET body == SkipSpace(Tail(s))
         IN  IF body # <<>> /\ Head(body) = "]"
             THEN Parsed("list", <<>>, <<>>, Tail(body))
             ELSE ParseElements(body)
    ELSE LET hits == {i \in 1..Len(Literals) : StartsWith(s, Literals[i][1])}
         IN  IF hits # {}
             THEN LET i == CHOOSE h \in hits : TRUE
                  IN  Parsed(Literals[i][2], <<>>, <<>>,
                             SubSeq(s, Len(Literals[i][1]) + 1, Len(s)))
             ELSE ParseNumber(s)

\* the members of an object from a member name on, up to the closing brace;
\* get is what .get("api_key", "") gives on the members read so far
ParseMembers(s, get) ==
    IF s = <<>> \/ Head(s) # "\"" THEN ParseError
    ELSE LET name == ScanString(Tail(s), <<>>)
         IN  IF name = Raised THEN ParseError
             ELSE LET colon == SkipSpace(name[2])
                  IN  IF colon = <<>> \/ Head(colon) # ":" THEN ParseError
                      ELSE LET v == ParseValue(SkipSpace(Tail(colon)))
                               next == SkipSpace(v.rest)
                               got == IF name[1] = ApiKeyName THEN Gotten(v) ELSE get
                           IN  IF ~v.ok \/ next = <<>> THEN ParseError
                               ELSE IF Head(next) = "}"
                               THEN Parsed("dict", <<>>, got, Tail(next))
                               ELSE IF Head(next) = ","
                               THEN ParseMembers(SkipSpace(Tail(next)), got)
                               ELSE ParseError

\* the elements of an array from an element on, up to the closing bracket
ParseElements(s) ==
    LET v == ParseValue(s)
        next == SkipSpace(v.rest)
    IN  IF ~v.ok \/ next = <<>> THEN ParseError
        ELSE IF Head(next) = "]" THEN Parsed("list", <<>>, <<>>, Tail(next))
        ELSE IF Head(next) = "," THEN ParseElements(SkipSpace(Tail(next)))
        ELSE ParseError

\* json.load(f).get("api_key", ""): Raised when the text is not one JSON
\* document, or is one that has no .get
json_load_config(text) ==
    LET v == ParseValue(SkipSpace(text))
    IN  IF ~v.ok \/ SkipSpace(v.rest) # <<>> THEN Raised
        ELSE IF v.kind # "dict" THEN Raised
        ELSE v.get

\* as write_file, the file opened without truncation
write_file_keep(old, text) ==
    IF Len(old) > Len(text) THEN text \o SubSeq(old, Len(text) + 1, Len(old)) ELSE text

\* open(path, "w") ... write(text): the old contents are discarded
write_file(old, text) == text

load_api_key(file) == IF file = NoFile THEN <<>> ELSE json_load_config(file)

save_api_key(file, key) == write_file(file, json_dump_config(key))

----------------------------------------------------------------------------
(* Inputs of the filler *)

FixedTokens == {TokSermonTitle, TokPreacher, TokPrayerPerson, TokBibleRef, TokBibleText}
HymnTokens == {HymnToken(i) : i \in 1..(MaxHymns + 1)}
Tokens == FixedTokens \cup HymnTokens

SeqsUpTo(S, n) == UNION {[1..m -> S] : m \in 0..n}

\* the two parts of token t cut after its j-th character
Left(t, j) == SubSeq(t, 1, j)
Right(t, j) == SubSeq(t, j + 1, Len(t))

\* runs made of whole tokens and plain text
Pieces == Tokens \cup {<<"A">>}
PieceRuns == Pieces \cup {p \o q : p, q \in Pieces}

\* a token wrapped around another token
NestedRuns == {Left(t, j) \o u \o Right(t, j) :
                 t \in {TokPreacher, HymnToken(MaxHymns + 1)},
                 u \in {TokSermonTitle, HymnToken(1)},
                 j \in {2, 4}}

\* a token with one character missing and another token in its place
HoleRuns == {Left(t, j) \o u \o Right(t, j + 1) :
                 t \in {TokPreacher, HymnToken(MaxHymns + 1)},
                 u \in {TokSermonTitle, HymnToken(1)},
                 j \in {3}}

\* a token cut in two by a run boundary, with text around it
SplitContext == {<<>>, HymnToken(1), <<"}">>}
SplitsOf(t) == {<<pre \o Left(t, j), Right(t, j) \o post>> :
                 j \in 1..(Len(t) - 1), pre \in SplitContext, post \in SplitContext}
SplitDocs == UNION {SplitsOf(t) : t \in Tokens}

FillTemplates ==
    {<<r>> : r \in PieceRuns \cup NestedRuns \cup HoleRuns} \cup SplitDocs

FieldNames == {"sermon_title", "preacher", "prayer_person", "bible_ref",
               "bible_text", "hymn_list"}

Record(title, preacher, hymns) ==
    [sermon_title |-> title, preacher |-> preacher, prayer_person |-> <<"C">>,
     bible_ref |-> <<"D">>, bible_text |-> <<"E">>, hymn_list |-> hymns]

FillTitles == {<<"A">>, None, HymnToken(1), <<"gyo">>}
FillHymns == {<<"H">>, <<>>, HymnToken(2)}
FillRecords ==
    {Record(t, <<"B">>, h) : t \in FillTitles, h \in SeqsUpTo(FillHymns, MaxHymns)}
    \cup {[sermon_title |-> <<"A">>], [hymn_list |-> <<<<"H">>>>]}

----------------------------------------------------------------------------
(* The filler on its own: one call of fill_ppt_text on drawn inputs *)

InitDisk == config_file = NoFile /\ saved_template = NoTemplate /\ tmp_files = 0
InitSession ==
    /\ api_key_input = <<>> /\ session_state = <<>> /\ shown = "" /\ analysis = "idle"
    /\ key_default = <<>> /\ new_template = NoUpload /\ page_uploader = "none"
InitLoop == run_text = <<>> /\ pending = {}

InitFill ==
    /\ InitDisk /\ InitSession /\ InitLoop
    /\ template \in FillTemplates
    /\ data \in FillRecords
    /\ output = Absent

FillCall ==
    /\ output = Absent
    /\ output' = fill_ppt_text(template, data)
    /\ template' = fill(template, data).file
    /\ UNCHANGED <<diskVars, api_key_input, session_state, shown, analysis, widgetVars,
                   data, loopVars>>

NextFill == FillCall

SpecFill == InitFill /\ [][NextFill]_vars

----------------------------------------------------------------------------
(* The inner loop of fill_ppt_text on one run, its entries taken in any order *)

OrderPieces == {TokSermonTitle, TokPreacher, HymnToken(1), HymnToken(MaxHymns)}
OrderRuns == OrderPieces \cup {p \o q : p, q \in OrderPieces}
                 \cup NestedRuns \cup HoleRuns

OrderTitles == {<<"A">>, TokPreacher}
OrderHymns == {<<"gyo">>, TokPreacher}
OrderRecords ==
    {Record(t, <<"B">>, h) : t \in OrderTitles, h \in SeqsUpTo(OrderHymns, MaxHymns)}

InitOrder ==
    /\ InitDisk /\ InitSession
    /\ \E r \in OrderRuns : template = <<r>> /\ run_text = r
    /\ data \in OrderRecords
    /\ pending = 1..Len(replacements(data))
    /\ output = Absent

\* one iteration of the loop over the table, for an entry not yet taken
ApplyAny(i) ==
    /\ i \in pending
    /\ run_text' = ApplyEntry(run_text, replacements(data)[i])
    /\ pending' = pending \ {i}
    /\ UNCHANGED <<diskVars, api_key_input, session_state, shown, analysis, widgetVars,
                   fillVars>>

NextOrder == \E i \in 1..(5 + MaxHymns) : ApplyAny(i)

SpecOrder == InitOrder /\ [][NextOrder]_vars

----------------------------------------------------------------------------
(* analyze_jubo_deep *)

\* Python objects a JSON document parses to
PyDict(items) == [type |-> "dict", items |-> items]
PyList(elems) == [type |-> "list", elems |-> elems]
PyNone == [type |-> "NoneType"]
\* what json_loads gives when json.loads raises
JSONDecodeError == [type |-> "JSONDecodeError"]

\* as Truthy, the test of the result left out
TruthyAlways(v) == TRUE

\* bool(v), as in "if result:"
Truthy(v) ==
    CASE v.type = "dict" -> DOMAIN v.items # {}
      [] v.type = "list" -> Len(v.elems) > 0
      [] v.type = "NoneType" -> FALSE

\* In a reply text a whole JSON document is one element of the sequence,
\* named in angle brackets; JsonDocument gives the object it parses to.
JsonNames == {"<full>", "<other>", "<partial>", "<empty>", "<list>", "<null>"}
JsonDocument(name) ==
    CASE name = "<full>" -> PyDict(Record(<<"A">>, <<"B">>, <<<<"H">>>>))
      [] name = "<other>" -> PyDict(Record(<<"Z">>, <<"B">>, <<<<"H">>, <<"G">>>>))
      [] name = "<partial>" -> PyDict([sermon_title |-> <<"A">>])
      [] name = "<empty>" -> PyDict(<<>>)
      [] name = "<list>" -> PyList(<<"x">>)
      [] name = "<null>" -> PyNone

\* c.isspace(): the characters str.strip() removes
IsSpace(c) ==
    c \in {" ", "\t", "\n", "\r", "\f", "U+000B", "U+000C",
           "U+001C", "U+001D", "U+001E", "U+001F", "U+0085", "U+00A0", "U+1680",
           "U+2000", "U+2001", "U+2002", "U+2003", "U+2004", "U+2005", "U+2006",
           "U+2007", "U+2008", "U+2009", "U+200A", "U+2028", "U+2029", "U+202F",
           "U+205F", "U+3000"}

Reverse(s) == [i \in 1..Len(s) |-> s[Len(s) + 1 - i]]

RECURSIVE LStrip(_)
LStrip(s) == IF s # <<>> /\ IsSpace(Head(s)) THEN LStrip(Tail(s)) ELSE s
RECURSIVE RStrip(_)
RStrip(s) == IF s # <<>> /\ IsSpace(s[Len(s)]) THEN RStrip(SubSeq(s, 1, Len(s) - 1)) ELSE s
\* s.strip()
Strip(s) == RStrip(LStrip(s))

\* "tick" is the backquote character
Fence == <<"tick", "tick", "tick">>
FenceJson == Fence \o <<"j", "s", "o", "n">>

\* response.text.replace(FenceJson, "").replace(Fence, "").strip()
strip_fences(text) == Strip(Replace(Replace(text, FenceJson, <<>>), Fence, <<>>))

\* json.loads(text): the object, or JSONDecodeError when text is not one JSON document
json_loads(text) ==
    LET t == Reverse(SkipSpace(Reverse(SkipSpace(text))))
    IN  IF Len(t) = 1 /\ t[1] \in JsonNames THEN JsonDocument(t[1]) ELSE JSONDecodeError

\* One call.  fault says which step raises: "create" is genai.configure,
\* GenerativeModel or NamedTemporaryFile itself, before any file is there,
\* "write" is tmp.write in the with block, "upload" is genai.upload_file,
\* "generate" is generate_content or response.text, "none" is no failure
\* before the reply is parsed.
\*   raised: an exception leaves the function    error: st.error was called
\*   result: the returned object                 leftover: temporary files left
analyze_jubo_deep(fault, reply) ==
    IF fault = "create"
    THEN [raised |-> TRUE, error |-> FALSE, result |-> PyNone, leftover |-> 0]
    ELSE IF fault = "write"
    THEN [raised |-> TRUE, error |-> FALSE, result |-> PyNone, leftover |-> 1]
    ELSE IF fault \in {"upload", "generate"}
    THEN [raised |-> FALSE, error |-> TRUE, result |-> PyNone, leftover |-> 0]
    ELSE IF json_loads(strip_fences(reply)) = JSONDecodeError
    THEN [raised |-> FALSE, error |-> TRUE, result |-> PyNone, leftover |-> 0]
    ELSE [raised |-> FALSE, error |-> FALSE,
          result |-> json_loads(strip_fences(reply)), leftover |-> 0]

----------------------------------------------------------------------------
(* The page: sidebar, STEP 1, STEP 2, STEP 3 *)

\* st.session_state[k] = v
Put(state, k, v) == [x \in DOMAIN state \cup {k} |-> IF x = k THEN v ELSE state[x]]

\* ", ".join(list)
RECURSIVE JoinComma(_)
JoinComma(list) ==
    IF list = <<>> THEN <<>>
    ELSE IF Len(list) = 1 THEN list[1]
    ELSE list[1] \o <<",", " ">> \o JoinComma(Tail(list))

\* s.split(','), the part being read carried in cur
RECURSIVE SplitComma(_, _)
SplitComma(s, cur) ==
    IF s = <<>> THEN <<cur>>
    ELSE IF Head(s) = "," THEN <<cur>> \o SplitComma(Tail(s), <<>>)
    ELSE SplitComma(Tail(s), Append(cur, Head(s)))

\* [h.strip() for h in hymn_str.split(',')]
hymn_list_of(hymn_str) ==
    LET parts == SplitComma(hymn_str, <<>>)
    IN  [i \in 1..Len(parts) |-> Strip(parts[i])]

\* f"{new_title}_yebae.pptx"
FileNameSuffix == <<"_", "ye", "bae", ".", "p", "p", "t", "x">>
file_name(new_title) == new_title \o FileNameSuffix

\* "if not api_key_input: ... else:" the main area is drawn
KeyEntered == api_key_input # <<>>

\* as final_template_source, an empty default presentation when no file is saved
final_template_source_default(file) == IF file # NoTemplate THEN file ELSE <<>>

\* SAVED_TEMPLATE_PATH if os.path.exists(SAVED_TEMPLATE_PATH) else None
final_template_source(file) == IF file # NoTemplate THEN file ELSE NonePath

\* the form of STEP 3 is drawn: the last script run reached STEP 3 (it is not
\* waiting in analyze_jubo_deep and was not ended there by an exception)
\* with a ppt_data that has .get
FormDrawn ==
    /\ KeyEntered
    /\ analysis = "idle"
    /\ shown # "exception"
    /\ "ppt_data" \in DOMAIN session_state
    /\ session_state["ppt_data"].type = "dict"

\* the download button of STEP 3 is on the page
DownloadOffered ==
    /\ FormDrawn
    /\ "final_ppt" \in DOMAIN session_state

\* save_template(uploaded_file)
save_template(file, uploaded) == write_file(file, uploaded)

\* The sidebar in one script run.  value is what the browser holds for the
\* key input that is on the page.  The input has no key=, so its value= is
\* part of its identity: when the saved key is no longer the value= the
\* input on the page was made with, st.text_input makes a new input and
\* returns its default, the saved key.
\*   api_key_input: what st.text_input returns    saved: save_api_key was called
\*   config_file: the file afterwards             key_default: the value= of this run
Sidebar(file, default, value) ==
    LET Drawn(saved_key, input) ==
            [api_key_input |-> input,
             saved |-> input # saved_key,
             config_file |-> IF input # saved_key THEN save_api_key(file, input) ELSE file,
             key_default |-> saved_key]
        Loaded(saved_key) ==
            Drawn(saved_key, IF saved_key = default THEN value ELSE saved_key)
    IN  Loaded(load_api_key(file))

\* STEP 1 in one script run.  held_change is the file in the uploader that
\* changes the template, held_first the file in the uploader that registers
\* the first one.  A file in the uploader that is drawn is saved, in every
\* run; after the first registration st.rerun() runs the script again,
\* which draws the other uploader.  An uploader that is not drawn loses
\* its file.
\*   saved_template: the file afterwards     new_template: the file the
\*   page_uploader: the uploader drawn       changing uploader holds afterwards
StepOne(key, file, held_change, held_first) ==
    IF key = <<>>
    THEN [saved_template |-> file, new_template |-> NoUpload, page_uploader |-> "none"]
    ELSE IF file # NoTemplate
    THEN [saved_template |-> IF held_change # NoUpload
                             THEN save_template(file, held_change) ELSE file,
          new_template |-> held_change, page_uploader |-> "change"]
    ELSE IF held_first # NoUpload
    THEN [saved_template |-> save_template(file, held_first),
          new_template |-> NoUpload, page_uploader |-> "change"]
    ELSE [saved_template |-> file, new_template |-> NoUpload, page_uploader |-> "first"]

\* One script run as far as the end of STEP 1: the state it leaves
ScriptRun(value, held_change, held_first) ==
    LET Both(side, one) ==
            [api_key_input |-> side.api_key_input, saved |-> side.saved,
             config_file |-> side.config_file, key_default |-> side.key_default,
             saved_template |-> one.saved_template, new_template |-> one.new_template,
             page_uploader |-> one.page_uploader]
        Main(side) ==
            Both(side, StepOne(side.api_key_input, saved_template, held_change, held_first))
    IN  Main(Sidebar(config_file, key_default, value))

\* the variables a script run sets as far as the end of STEP 1
Ran(run) ==
    /\ api_key_input' = run.api_key_input
    /\ config_file' = run.config_file
    /\ key_default' = run.key_default
    /\ new_template' = run.new_template
    /\ page_uploader' = run.page_uploader

\* the user types a key into the key input of the sidebar (typing the key
\* that is there runs the page again with nothing changed)
EnterApiKey(key) ==
    /\ analysis = "idle"
    /\ \E run \in {ScriptRun(key, new_template, NoUpload)} :
           /\ Ran(run)
           /\ saved_template' = run.saved_template
           /\ shown' = IF run.saved THEN "key_saved" ELSE ""
    /\ UNCHANGED <<tmp_files, session_state, analysis, fillVars, loopVars>>

\* STEP 1: the user puts a file into the template uploader that is on the page
UploadTemplate(uploaded) ==
    /\ analysis = "idle"
    /\ page_uploader # "none"
    /\ \E run \in {ScriptRun(api_key_input,
                               IF page_uploader = "change" THEN uploaded ELSE NoUpload,
                               IF page_uploader = "first" THEN uploaded ELSE NoUpload)} :
           /\ Ran(run)
           /\ saved_template' = run.saved_template
           /\ shown' = ""
    /\ UNCHANGED <<tmp_files, session_state, analysis, fillVars, loopVars>>

\* STEP 1: the user takes the file out of the uploader that changes the template
ClearUpload ==
    /\ analysis = "idle"
    /\ page_uploader = "change"
    /\ new_template # NoUpload
    /\ \E run \in {ScriptRun(api_key_input, NoUpload, NoUpload)} :
           /\ Ran(run)
           /\ saved_template' = run.saved_template
           /\ shown' = ""
    /\ UNCHANGED <<tmp_files, session_state, analysis, fillVars, loopVars>>

\* the file at SAVED_TEMPLATE_PATH is removed from outside the program
\* (the case os.path.exists is asked about again in STEP 3)
RemoveTemplate ==
    /\ saved_template # NoTemplate
    /\ saved_template' = NoTemplate
    /\ UNCHANGED <<config_file, api_key_input, tmp_files, session_state, shown, analysis,
                   widgetVars, fillVars, loopVars>>

\* another session of the app saves a template
OtherSessionUpload(uploaded) ==
    /\ saved_template' = save_template(saved_template, uploaded)
    /\ UNCHANGED <<config_file, api_key_input, tmp_files, session_state, shown, analysis,
                   widgetVars, fillVars, loopVars>>

\* STEP 2: the analysis button is clicked; it is on the page when an image is
\* uploaded and the last run had a template.  The script runs as far as
\* STEP 1; with no template file now the button is not drawn and nothing
\* is called.  Otherwise the call begins: fault "create" or "write" ends the
\* script run with its exception, otherwise the temporary file is written
\* and the call goes on to wait for the upload and the reply.
AnalyzeStart(fault) ==
    /\ analysis = "idle"
    /\ page_uploader = "change"
    /\ fault \in {"none", "create", "write"}
    /\ tmp_files < MaxTmp
    /\ \E run \in {ScriptRun(api_key_input, new_template, NoUpload)} :
           /\ Ran(run)
           /\ saved_template' = run.saved_template
           /\ IF run.page_uploader # "change"
              THEN /\ tmp_files' = tmp_files
                   /\ analysis' = "idle"
                   /\ shown' = ""
              ELSE IF fault = "none"
              THEN /\ tmp_files' = tmp_files + 1
                   /\ analysis' = "running"
                   /\ shown' = "spinner"
              ELSE LET call == analyze_jubo_deep(fault, <<>>)
                   IN  /\ tmp_files' = tmp_files + call.leftover
                       /\ analysis' = "idle"
                       /\ shown' = IF call.raised THEN "exception" ELSE ""
    /\ UNCHANGED <<session_state, fillVars, loopVars>>

\* STEP 2: the call, its temporary file written, comes to its end: the
\* file is removed, and a result that is truthy is stored, upon which
\* st.rerun() runs the script again
AnalyzeFinish(fault, reply) ==
    /\ analysis = "running"
    /\ fault \in {"none", "upload", "generate"}
    /\ \E call \in {analyze_jubo_deep(fault, reply)},
          run \in {ScriptRun(api_key_input, new_template, NoUpload)} :
           /\ tmp_files' = tmp_files - 1 + call.leftover
           /\ shown' = IF call.error THEN "analysis_error" ELSE ""
           /\ IF Truthy(call.result)
              THEN /\ session_state' = Put(session_state, "ppt_data", call.result)
                   /\ Ran(run)
                   /\ saved_template' = run.saved_template
              ELSE UNCHANGED <<session_state, config_file, api_key_input, saved_template,
                               widgetVars>>
    /\ analysis' = "idle"
    /\ UNCHANGED <<fillVars, loopVars>>

\* the dict built from the form's fields when it is submitted
final_data(new_title, new_preacher, new_prayer, new_ref, new_text, hymn_str) ==
    [sermon_title |-> new_title,
     preacher |-> new_preacher,
     prayer_person |-> new_prayer,
     bible_ref |-> new_ref,
     bible_text |-> new_text,
     hymn_list |-> hymn_list_of(hymn_str)]

\* STEP 3: the form is submitted; the script runs through the sidebar and
\* STEP 1 before it comes to the form
SubmitForm(new_title, new_preacher, new_prayer, new_ref, new_text, hymn_str) ==
    /\ FormDrawn
    /\ \E run \in {ScriptRun(api_key_input, new_template, NoUpload)},
          record \in {final_data(new_title, new_preacher, new_prayer, new_ref, new_text,
                                 hymn_str)} :
           /\ Ran(run)
           /\ IF final_template_source(run.saved_template) # NonePath
              THEN LET filled == fill(final_template_source(run.saved_template), record)
                   IN  /\ session_state' =
                              Put(Put(session_state, "final_ppt", filled.stream),
                                  "final_file_name", file_name(new_title))
                       /\ saved_template' = filled.file
                       /\ template' = run.saved_template
                       /\ data' = record
                       /\ output' = filled.stream
                       /\ shown' = ""
              ELSE /\ shown' = "template_missing"
                   /\ saved_template' = run.saved_template
                   /\ UNCHANGED <<session_state, fillVars>>
    /\ UNCHANGED <<tmp_files, analysis, loopVars>>

(* Inputs of the page *)

KeyChars == {"a", "\"", "\\", "\t", "U+00E9"}
Keys == SeqsUpTo(KeyChars, MaxKeyLen)
SessionKeys == {<<>>, <<"a">>}

SessionTemplates ==
    {<<TokSermonTitle \o HymnToken(1)>>,
     <<TokPreacher, HymnToken(1) \o <<" ">> \o HymnToken(2)>>}

Faults == {"none", "create", "write", "upload", "generate"}

Replies ==
    {<<n>> : n \in JsonNames}
    \cup {FenceJson \o <<"\n", n, "\n">> \o Fence : n \in {"<full>", "<other>"}}
    \cup {Fence \o <<"J", "S", "O", "N", "\n", "<full>", "\n">> \o Fence,
          <<"S", "o", "r", "r", "y">>,
          <<"<full>", "\n", "<other>">>,
          <<>>}

\* what the user may leave in or type into the form's fields: each field
\* starts with the value drawn from the stored record
FormTitles(d) == {Get(d, "sermon_title", <<>>), <<"N">>}
FormPreachers(d) == {Get(d, "preacher", <<>>), <<"P">>}
FormPrayers(d) == {Get(d, "prayer_person", <<>>)}
FormRefs(d) == {Get(d, "bible_ref", <<>>)}
FormTexts(d) == {Get(d, "bible_text", <<>>)}
FormHymnStrs(d) == {JoinComma(Get(d, "hymn_list", <<>>)), <<"H", ",", "U+3000", "G", " ">>}

\* STEP 3: the form is submitted with what the user left in it or typed
Submit ==
    /\ FormDrawn
    /\ LET d == session_state["ppt_data"].items
       IN  \E new_title \in FormTitles(d), new_preacher \in FormPreachers(d),
              new_prayer \in FormPrayers(d), new_ref \in FormRefs(d),
              new_text \in FormTexts(d), hymn_str \in FormHymnStrs(d) :
                SubmitForm(new_title, new_preacher, new_prayer, new_ref, new_text, hymn_str)

Init ==
    /\ InitDisk /\ InitSession /\ InitLoop
    /\ template = Absent /\ data = <<>> /\ output = Absent

Next ==
    \/ \E key \in SessionKeys : EnterApiKey(key)
    \/ \E uploaded \in SessionTemplates : UploadTemplate(uploaded)
    \/ ClearUpload
    \/ RemoveTemplate
    \/ \E uploaded \in SessionTemplates : OtherSessionUpload(uploaded)
    \/ \E fault \in Faults : AnalyzeStart(fault)
    \/ \E fault \in Faults, reply \in Replies : AnalyzeFinish(fault, reply)
    \/ Submit

Spec == Init /\ [][Next]_vars

(* The credential store on its own *)

NextKey == \E key \in Keys : EnterApiKey(key)

SpecKey == Init /\ [][NextKey]_vars

----------------------------------------------------------------------------
(* Properties of the filler *)

IsBrace(c) == c = "{" \/ c = "}"
BraceFree(s) == \A i \in 1..Len(s) : ~IsBrace(s[i])

\* the length of the token {{name}} that s begins with, 0 if it begins with none
TokenAtStart(s) ==
    IF Len(s) >= 4 /\ s[1] = "{" /\ s[2] = "{"
    THEN LET ends == {n \in 4..Len(s) : /\ s[n - 1] = "}" /\ s[n] = "}"
                                        /\ BraceFree(SubSeq(s, 3, n - 2))}
         IN  IF ends = {} THEN 0 ELSE CHOOSE n \in ends : \A m \in ends : n <= m
    ELSE 0

\* every brace of s belongs to a complete token {{name}}
RECURSIVE WellBraced(_)
WellBraced(s) ==
    IF s = <<>> THEN TRUE
    ELSE IF ~IsBrace(Head(s)) THEN WellBraced(Tail(s))
    ELSE TokenAtStart(s) > 0 /\ WellBraced(SubSeq(s, TokenAtStart(s) + 1, Len(s)))

\* no value of the table contains a brace
PlainValues(d) == \A e \in Range(replacements(d)) : BraceFree(safe_value(e[2]))

\* the substitution the tokens stand for: one pass from the left over the
\* text, each whole token of the table giving way to its value
RECURSIVE Substituted(_, _)
Substituted(s, table) ==
    IF s = <<>> THEN <<>>
    ELSE LET hit == {e \in Range(table) : StartsWith(s, e[1])}
         IN  IF hit = {} THEN <<Head(s)>> \o Substituted(Tail(s), table)
             ELSE LET e == CHOOSE x \in hit : TRUE
                  IN  safe_value(e[2]) \o Substituted(SubSeq(s, Len(e[1]) + 1, Len(s)), table)

HymnsOf(d) == Get(d, "hymn_list", <<>>)

\* C1: the hymn token number i is in the substitution table, with the i-th
\* element of hymn_list as its value, exactly when 1 <= i <= len(hymn_list);
\* a hymn token with a larger index that is in a run of the template is
\* still there, as often, in the same run of the output; and where every
\* brace of a run belongs to a whole token and no value has a brace, the
\* output run is the run with each token of the table replaced by its value.
C1_HymnTokens ==
    output # Absent =>
        /\ \A i \in 1..(MaxHymns + 2) :
              LET entries == {e \in Range(replacements(data)) : e[1] = HymnToken(i)}
              IN  IF i <= Len(HymnsOf(data))
                  THEN entries = {<<HymnToken(i), HymnsOf(data)[i]>>}
                  ELSE entries = {}
        /\ \A r \in 1..Len(template) :
              \A i \in (Len(HymnsOf(data)) + 1)..(MaxHymns + 2) :
                  Occurrences(output[r], HymnToken(i)) >= Occurrences(template[r], HymnToken(i))
        /\ \A r \in 1..Len(template) :
              (WellBraced(template[r]) /\ PlainValues(data)) =>
                  output[r] = Substituted(template[r], replacements(data))

C1_Witness ==
    /\ output # Absent
    /\ Len(HymnsOf(data)) = MaxHymns
    /\ HymnsOf(data)[1] = <<"H">>
    /\ template = <<HymnToken(1) \o HymnToken(MaxHymns + 1)>>
    /\ output = <<<<"H">> \o HymnToken(MaxHymns + 1)>>

\* token t is cut by the boundary between runs r1 and r2 after its j-th character
SplitAt(r1, r2, t, j) == EndsWith(r1, Left(t, j)) /\ StartsWith(r2, Right(t, j))

\* C6: a token whose characters are split across two adjacent runs, neither
\* run containing the whole token, is not replaced: the first run of the
\* output still ends with, and the second still begins with, its characters.
C6_SplitToken ==
    (output # Absent /\ Len(template) = 2) =>
        \A t \in Tokens : \A j \in 1..(Len(t) - 1) :
            (/\ SplitAt(template[1], template[2], t, j)
             /\ ~Contains(template[1], t)
             /\ ~Contains(template[2], t))
            => SplitAt(output[1], output[2], t, j)

C6_Witness ==
    /\ output # Absent
    /\ Len(template) = 2
    /\ HymnsOf(data) # <<>>
    /\ HymnsOf(data)[1] = <<"H">>
    /\ template = <<HymnToken(1) \o Left(TokSermonTitle, 4), Right(TokSermonTitle, 4) \o HymnToken(1)>>
    /\ output = <<<<"H">> \o Left(TokSermonTitle, 4), Right(TokSermonTitle, 4) \o <<"H">>>>

\* C10 as stated: whatever the order in which the entries of the table were
\* applied to a run, the resulting text is the text the code's own order gives.
C10_AnyOrder ==
    pending = {} => run_text = fill_ppt_text(template, data)[1]

\* C10 amended: the order is irrelevant when every brace of the run text
\* belongs to a whole token {{name}} and no value of the table has a brace.
C10_AnyOrderPlain ==
    (pending = {} /\ WellBraced(template[1]) /\ PlainValues(data)) =>
        run_text = fill_ppt_text(template, data)[1]

C10_Witness ==
    /\ pending = {}
    /\ PlainValues(data)
    /\ template = <<TokSermonTitle \o TokPreacher>>
    /\ run_text = <<"A", "B">>

----------------------------------------------------------------------------
(* Properties of the page *)

Stored(key) == key \in DOMAIN session_state

\* C2: once a fresh analysis has succeeded and stored a new record, the
\* download of a document filled before it is not on the page.
C2_FreshAnalysisResets ==
    [][\A fault \in Faults, reply \in Replies :
          (/\ AnalyzeFinish(fault, reply)
           /\ Stored("ppt_data")
           /\ session_state'["ppt_data"] # session_state["ppt_data"])
          => ~DownloadOffered']_vars

\* the analysis fails: the upload or the generation raises, or the reply is
\* not a JSON document once the fence markers are taken out
AnalysisFails(fault, reply) ==
    \/ fault \in {"upload", "generate"}
    \/ fault = "none" /\ json_loads(strip_fences(reply)) = JSONDecodeError

\* C3: an analysis that fails returns no record, shows the error message
\* and leaves the session state as it was.
C3_FailedAnalysis ==
    [][\A fault \in Faults, reply \in Replies :
          (AnalyzeFinish(fault, reply) /\ AnalysisFails(fault, reply))
          => /\ analyze_jubo_deep(fault, reply).result = PyNone
             /\ shown' = "analysis_error"
             /\ session_state' = session_state]_vars

C3_Witness ==
    /\ shown = "analysis_error"
    /\ Stored("ppt_data")
    /\ session_state["ppt_data"] = JsonDocument("<full>")
    /\ Stored("final_ppt")

\* C4: no temporary file of analyze_jubo_deep exists once a call is over,
\* whichever way the call ended.
C4_NoTempFileLeft == analysis = "idle" => tmp_files = 0

\* C5: a record held in the session state has all six fields.
C5_AllFields ==
    Stored("ppt_data") =>
        /\ session_state["ppt_data"].type = "dict"
        /\ DOMAIN session_state["ppt_data"].items = FieldNames

\* C7: with no config file load_api_key gives the empty string; after any
\* keys were entered load_api_key gives the last of them, and a key that was
\* saved is all the config file holds.
C7_NewestKey ==
    /\ config_file = NoFile => load_api_key(config_file) = <<>>
    /\ load_api_key(config_file) = api_key_input
    /\ shown = "key_saved" => config_file = json_dump_config(api_key_input)

\* the empty key saved over an earlier key
C7_Witness ==
    /\ shown = "key_saved"
    /\ api_key_input = <<>>
    /\ config_file = json_dump_config(<<>>)

\* C8: a submit with no saved template does not fill, shows the error and
\* leaves the document and the file name of the session as they were; the
\* form is still drawn.
C8_TemplateMissing ==
    [][(saved_template = NoTemplate /\ Submit)
       => /\ shown' = "template_missing"
          /\ session_state' = session_state
          /\ UNCHANGED fillVars
          /\ FormDrawn']_vars

C8_Witness ==
    /\ shown = "template_missing"
    /\ saved_template = NoTemplate
    /\ Stored("final_ppt")
    /\ session_state["final_ppt"] = output

\* C9: after a submit that fills, the saved template file is the file that
\* fill_ppt_text was given (template), and a fill of the same file with the
\* same record as the fill before it gives the same document.
C9_TemplateUntouched ==
    [][(Submit /\ shown' # "template_missing")
       => /\ saved_template' = template'
          /\ (output # Absent /\ template' = template /\ data' = data)
             => output' = output]_vars

C9_Witness ==
    /\ output # Absent
    /\ saved_template = template
    /\ output # template
    /\ Stored("final_ppt")
    /\ shown = ""

====
